---- MODULE Spec2Model ----
(***************************************************************************)
(* RedGuard backend (src/src/main.py): the FastAPI handlers over the two   *)
(* in-memory stores CONTRACTS and FEEDBACK, the pydantic models that       *)
(* validate the analysis payload, and the text extraction front end.       *)
(*                                                                         *)
(* Untyped JSON values (what call_llm hands back) are tagged records:      *)
(*   [t |-> "int", n |-> 30]   [t |-> "str", s |-> "low"]   [t |-> "null"] *)
(*   [t |-> "list", items |-> <<...>>]   [t |-> "obj", o |-> [k |-> v]]    *)
(* Validated pydantic models are plain records of untagged values.         *)
(***************************************************************************)
EXTENDS Integers, Sequences, FiniteSets, TLC

\* ------------------------------------------------------------------ bounds

\* Most records the store is driven to hold.
MaxContracts == 2
\* Most feedback entries accepted over all contracts.
MaxFeedback == 2

\* ------------------------------------------------------- untyped JSON values

I(n) == [t |-> "int", n |-> n]
S(s) == [t |-> "str", s |-> s]
Null == [t |-> "null"]
L(items) == [t |-> "list", items |-> items]
O(o) == [t |-> "obj", o |-> o]

\* Python's None inside a validated model (Optional[str] fields).
None == "<None>"

Has(o, k) == k \in DOMAIN o

\* ------------------------------------------------- pydantic field validators

\* `name: str`: the key is present and holds a string.
ReqStr(o, k) == Has(o, k) /\ o[k].t = "str"

\* `name: int`: the key is present and holds an integer.
ReqInt(o, k) == Has(o, k) /\ o[k].t = "int"

\* `name: Literal[...]`: the key is present and holds one of the literals.
ReqLit(o, k, lits) == Has(o, k) /\ o[k].t = "str" /\ o[k].s \in lits

\* `name: Optional[str] = None`: absent, null or a string.
OptStr(o, k) == ~Has(o, k) \/ o[k].t \in {"str", "null"}

\* `name: List[str]`: a list whose elements are all strings.
IsStrList(v) == v.t = "list" /\ \A i \in 1..Len(v.items) : v.items[i].t = "str"

\* `name: List[str] = []`: absent, or a list of strings.
OptStrList(o, k) == ~Has(o, k) \/ IsStrList(o[k])

GetOptStr(o, k) == IF Has(o, k) /\ o[k].t = "str" THEN o[k].s ELSE None

GetStrList(o, k) == IF Has(o, k) THEN [i \in 1..Len(o[k].items) |-> o[k].items[i].s] ELSE <<>>

\* RiskLevel = Literal["low", "medium", "high"]
RiskLevel == {"low", "medium", "high"}

\* ------------------------------------------------------------ CategoryScore

CategoryScoreValid(raw) ==
    /\ raw.t = "obj"
    /\ ReqStr(raw.o, "name")
    /\ ReqInt(raw.o, "value")

CategoryScore(raw) == [name |-> raw.o.name.s, value |-> raw.o.value.n]

\* ------------------------------------------------------------------ TopRisk

TopRiskValid(raw) ==
    /\ raw.t = "obj"
    /\ ReqInt(raw.o, "id")
    /\ ReqLit(raw.o, "level", RiskLevel)
    /\ ReqStr(raw.o, "category")
    /\ ReqStr(raw.o, "title")
    /\ ReqStr(raw.o, "description")
    /\ OptStr(raw.o, "section")
    /\ OptStr(raw.o, "impact")
    /\ OptStr(raw.o, "recommendation")
    /\ OptStrList(raw.o, "tags")

TopRisk(raw) ==
    [id |-> raw.o.id.n,
     level |-> raw.o.level.s,
     category |-> raw.o.category.s,
     title |-> raw.o.title.s,
     description |-> raw.o.description.s,
     section |-> GetOptStr(raw.o, "section"),
     impact |-> GetOptStr(raw.o, "impact"),
     recommendation |-> GetOptStr(raw.o, "recommendation"),
     tags |-> GetStrList(raw.o, "tags")]

\* ------------------------------------------------------------------ Summary

\* Summary with riskScore: int = Field(ge=0), the upper bound left out.
SummaryValid_no_le(raw) ==
    /\ raw.t = "obj"
    /\ ReqLit(raw.o, "overallRisk", RiskLevel)
    /\ ReqInt(raw.o, "riskScore")
    /\ raw.o.riskScore.n >= 0
    /\ ReqInt(raw.o, "criticalIssues")
    /\ ReqInt(raw.o, "mediumIssues")
    /\ ReqInt(raw.o, "lowIssues")
    /\ ReqStr(raw.o, "recommendation")

\* riskScore: int = Field(ge=0, le=100); the three counts are plain `int`.
SummaryValid(raw) ==
    /\ raw.t = "obj"
    /\ ReqLit(raw.o, "overallRisk", RiskLevel)
    /\ ReqInt(raw.o, "riskScore")
    /\ raw.o.riskScore.n >= 0
    /\ raw.o.riskScore.n <= 100
    /\ ReqInt(raw.o, "criticalIssues")
    /\ ReqInt(raw.o, "mediumIssues")
    /\ ReqInt(raw.o, "lowIssues")
    /\ ReqStr(raw.o, "recommendation")

Summary(raw) ==
    [overallRisk |-> raw.o.overallRisk.s,
     riskScore |-> raw.o.riskScore.n,
     criticalIssues |-> raw.o.criticalIssues.n,
     mediumIssues |-> raw.o.mediumIssues.n,
     lowIssues |-> raw.o.lowIssues.n,
     recommendation |-> raw.o.recommendation.s]

\* -------------------------------------------------------------- Improvement

ImprovementStatus == {"suggested", "accepted", "rejected"}

\* status: Literal["suggested", "accepted", "rejected"] = "suggested"
ImprovementValid(raw) ==
    /\ raw.t = "obj"
    /\ ReqInt(raw.o, "id")
    /\ ReqStr(raw.o, "category")
    /\ ReqLit(raw.o, "level", RiskLevel)
    /\ ReqStr(raw.o, "original")
    /\ ReqStr(raw.o, "improved")
    /\ ReqStr(raw.o, "rationale")
    /\ (~Has(raw.o, "status") \/ ReqLit(raw.o, "status", ImprovementStatus))

Improvement(raw) ==
    [id |-> raw.o.id.n,
     category |-> raw.o.category.s,
     level |-> raw.o.level.s,
     original |-> raw.o.original.s,
     improved |-> raw.o.improved.s,
     rationale |-> raw.o.rationale.s,
     status |-> IF Has(raw.o, "status") THEN raw.o.status.s ELSE "suggested"]

\* ------------------------------------------------------------------- Change

ChangeType == {"added", "removed", "modified"}

ChangeValid(raw) ==
    /\ raw.t = "obj"
    /\ ReqInt(raw.o, "id")
    /\ ReqLit(raw.o, "type", ChangeType)
    /\ ReqStr(raw.o, "section")
    /\ OptStr(raw.o, "original")
    /\ OptStr(raw.o, "revised")
    /\ ReqLit(raw.o, "impact", RiskLevel)
    /\ ReqStr(raw.o, "description")
    /\ ReqStr(raw.o, "status")

Change(raw) ==
    [id |-> raw.o.id.n,
     type |-> raw.o.type.s,
     section |-> raw.o.section.s,
     original |-> GetOptStr(raw.o, "original"),
     revised |-> GetOptStr(raw.o, "revised"),
     impact |-> raw.o.impact.s,
     description |-> raw.o.description.s,
     status |-> raw.o.status.s]

\* ------------------------------------------------------------------- Report

DocumentInfoValid(raw) ==
    /\ raw.t = "obj"
    /\ ReqStr(raw.o, "name")
    /\ OptStr(raw.o, "date")
    /\ OptStrList(raw.o, "parties")
    /\ OptStr(raw.o, "reviewDate")
    /\ OptStr(raw.o, "analyst")

DocumentInfo(raw) ==
    [name |-> raw.o.name.s,
     date |-> GetOptStr(raw.o, "date"),
     parties |-> GetStrList(raw.o, "parties"),
     reviewDate |-> GetOptStr(raw.o, "reviewDate"),
     analyst |-> GetOptStr(raw.o, "analyst")]

ReportIssueValid(raw) ==
    /\ raw.t = "obj"
    /\ ReqInt(raw.o, "id")
    /\ ReqStr(raw.o, "category")
    /\ ReqStr(raw.o, "severity")
    /\ ReqStr(raw.o, "title")
    /\ ReqStr(raw.o, "status")
    /\ OptStr(raw.o, "owner")
    /\ OptStr(raw.o, "dueDate")

ReportIssue(raw) ==
    [id |-> raw.o.id.n,
     category |-> raw.o.category.s,
     severity |-> raw.o.severity.s,
     title |-> raw.o.title.s,
     status |-> raw.o.status.s,
     owner |-> GetOptStr(raw.o, "owner"),
     dueDate |-> GetOptStr(raw.o, "dueDate")]

\* overallRisk is a free string here and riskScore an unconstrained int.
ExecutiveSummaryValid(raw) ==
    /\ raw.t = "obj"
    /\ ReqStr(raw.o, "overallRisk")
    /\ ReqInt(raw.o, "riskScore")
    /\ ReqInt(raw.o, "criticalIssues")
    /\ ReqInt(raw.o, "mediumIssues")
    /\ ReqInt(raw.o, "lowIssues")
    /\ ReqStr(raw.o, "recommendation")

ExecutiveSummary(raw) ==
    [overallRisk |-> raw.o.overallRisk.s,
     riskScore |-> raw.o.riskScore.n,
     criticalIssues |-> raw.o.criticalIssues.n,
     mediumIssues |-> raw.o.mediumIssues.n,
     lowIssues |-> raw.o.lowIssues.n,
     recommendation |-> raw.o.recommendation.s]

ReportValid(raw) ==
    /\ raw.t = "obj"
    /\ Has(raw.o, "documentInfo") /\ DocumentInfoValid(raw.o.documentInfo)
    /\ Has(raw.o, "executiveSummary") /\ ExecutiveSummaryValid(raw.o.executiveSummary)
    /\ Has(raw.o, "issues") /\ raw.o.issues.t = "list"
    /\ \A i \in 1..Len(raw.o.issues.items) : ReportIssueValid(raw.o.issues.items[i])
    /\ Has(raw.o, "mitigationPlan") /\ IsStrList(raw.o.mitigationPlan)
    /\ ReqStr(raw.o, "signingRecommendation")

Report(raw) ==
    [documentInfo |-> DocumentInfo(raw.o.documentInfo),
     executiveSummary |-> ExecutiveSummary(raw.o.executiveSummary),
     issues |-> [i \in 1..Len(raw.o.issues.items) |-> ReportIssue(raw.o.issues.items[i])],
     mitigationPlan |-> [i \in 1..Len(raw.o.mitigationPlan.items) |-> raw.o.mitigationPlan.items[i].s],
     signingRecommendation |-> raw.o.signingRecommendation.s]

\* ------------------------------------------- the list fields of the payload

\* `llm_result.get(k, [])` as the comprehension `[Model(**x) for x in ...]`
\* walks it: the elements of a list, nothing for an absent key (or for an
\* empty mapping or empty string, which iterate zero times).
Elements(llm, k) ==
    IF ~Has(llm, k) THEN <<>>
    ELSE IF llm[k].t = "list" THEN llm[k].items
    ELSE <<>>

\* The comprehension raises when the value cannot be iterated into mappings
\* (an int, null, a non-empty string or mapping) or an element fails its model.
Iterable(llm, k) ==
    \/ ~Has(llm, k)
    \/ llm[k].t = "list"
    \/ llm[k].t = "obj" /\ DOMAIN llm[k].o = {}
    \/ llm[k].t = "str" /\ llm[k].s = ""

\* `document=llm_result.get("document", {})` against `document: Dict[str, object]`.
DocumentValid(llm) == ~Has(llm, "document") \/ llm.document.t = "obj"

Document(llm) == IF Has(llm, "document") THEN llm.document ELSE O(<<>>)

\* ---------------------------------------------------------- Python strings
\* File names and document texts are sequences of one-character strings, so
\* that len(), lower(), split() and `in` are computed, not assumed.

\* str.lower() on one character.
LowerChar(ch) ==
    CASE ch = "A" -> "a" [] ch = "B" -> "b" [] ch = "C" -> "c" [] ch = "D" -> "d"
      [] ch = "E" -> "e" [] ch = "F" -> "f" [] ch = "G" -> "g" [] ch = "H" -> "h"
      [] ch = "I" -> "i" [] ch = "J" -> "j" [] ch = "K" -> "k" [] ch = "L" -> "l"
      [] ch = "M" -> "m" [] ch = "N" -> "n" [] ch = "O" -> "o" [] ch = "P" -> "p"
      [] ch = "Q" -> "q" [] ch = "R" -> "r" [] ch = "S" -> "s" [] ch = "T" -> "t"
      [] ch = "U" -> "u" [] ch = "V" -> "v" [] ch = "W" -> "w" [] ch = "X" -> "x"
      [] ch = "Y" -> "y" [] ch = "Z" -> "z" [] OTHER -> ch

lower(str) == [i \in 1..Len(str) |-> LowerChar(str[i])]

\* Index of the last occurrence of ch in str, 0 when there is none.
LastIndexOf(str, ch) ==
    LET hits == {i \in 1..Len(str) : str[i] = ch}
    IN IF hits = {} THEN 0 ELSE CHOOSE i \in hits : \A j \in hits : j <= i

\* str.split(sep)[-1]: what follows the last separator, the whole string
\* when the separator does not occur.
SplitLast(str, sep) == SubSeq(str, LastIndexOf(str, sep) + 1, Len(str))

\* str.split(sep)[0]: what precedes the first separator.
SplitFirst(str, sep) ==
    LET hits == {i \in 1..Len(str) : str[i] = sep}
    IN IF hits = {} THEN str
       ELSE SubSeq(str, 1, (CHOOSE i \in hits : \A j \in hits : i <= j) - 1)

\* `pat in str`
Contains(str, pat) ==
    \E i \in 1..(Len(str) - Len(pat) + 1) : SubSeq(str, i, i + Len(pat) - 1) = pat

\* str[:n]
Prefix(str, n) == SubSeq(str, 1, IF Len(str) < n THEN Len(str) ELSE n)

RECURSIVE Join(_, _)
\* sep.join(parts)
Join(sep, parts) ==
    IF parts = <<>> THEN <<>>
    ELSE IF Len(parts) = 1 THEN parts[1]
    ELSE parts[1] \o sep \o Join(sep, Tail(parts))

\* A byte that is no valid UTF-8 (0xFF).
InvalidByte == "\\xff"

\* bytes.decode("utf-8", errors="ignore") on ASCII bytes and invalid bytes:
\* the invalid bytes are dropped.
DecodeIgnore(data) == SelectSeq(data, LAMBDA b : b # InvalidByte)

\* ---------------------------------------------------------- text extraction

HTTPException(status_code, detail) == [kind |-> "http", status |-> status_code, detail |-> detail]

\* An exception no handler catches: Starlette answers 500 Internal Server Error.
Unhandled == [kind |-> "http", status |-> 500, detail |-> "Internal Server Error"]

Text(str) == [kind |-> "text", text |-> str]

\* upload.filename or "" (an upload without a filename has no such field)
FileNameOrEmpty(upload) == IF Has(upload, "filename") THEN upload.filename ELSE <<>>

\* filename.lower().split(".")[-1]
Extension(upload) == SplitLast(lower(FileNameOrEmpty(upload)), ".")

\* extract_text_from_file without its last line: an extension it does not
\* know is read as text.
extract_text_from_file_any_extension(upload) ==
    LET ext == Extension(upload) IN
    IF ext = <<"p", "d", "f">> \/ ext \in {<<"d", "o", "c", "x">>, <<"d", "o", "c">>}
    THEN IF upload.parsed.ok THEN Text(Join(<<"\n">>, upload.parsed.parts))
         ELSE Unhandled
    ELSE Text(DecodeIgnore(upload.data))

\* upload.parsed is what the external reader (pypdf, python-docx) makes of
\* the bytes: it raises, or yields the page / paragraph texts.
extract_text_from_file(upload) ==
    LET ext == Extension(upload) IN
    IF ext = <<"t", "x", "t">> THEN Text(DecodeIgnore(upload.data))
    ELSE IF ext = <<"p", "d", "f">> \/ ext \in {<<"d", "o", "c", "x">>, <<"d", "o", "c">>}
         THEN IF upload.parsed.ok THEN Text(Join(<<"\n">>, upload.parsed.parts))
              ELSE Unhandled
    ELSE HTTPException(400, "Unsupported file type")

\* The length floor of analyze_contract.
MinTextLength == 50

\* ------------------------------------------------------ make_dummy_analysis

UnlimitedLiability == <<"u", "n", "l", "i", "m", "i", "t", "e", "d", " ", "l", "i", "a", "b", "i", "l", "i", "t", "y">>
AsIs == <<"a", "s", " ", "i", "s">>

risk_level(text) ==
    IF Contains(lower(text), UnlimitedLiability) THEN "high"
    ELSE IF Contains(lower(text), AsIs) THEN "medium"
    ELSE "low"

score(text) ==
    IF Contains(lower(text), UnlimitedLiability) THEN 80
    ELSE IF Contains(lower(text), AsIs) THEN 65
    ELSE 30

\* str.capitalize() on the three risk levels.
Capitalize(level) ==
    CASE level = "high" -> "High" [] level = "medium" -> "Medium" [] level = "low" -> "Low"

\* The "summary" / "executiveSummary" counts and recommendation.
DummyCounts(text, overallRisk) ==
    [overallRisk |-> S(overallRisk),
     riskScore |-> I(score(text)),
     criticalIssues |-> I(IF risk_level(text) = "high" THEN 1 ELSE 0),
     mediumIssues |-> I(IF risk_level(text) # "low" THEN 2 ELSE 0),
     lowIssues |-> I(1),
     recommendation |-> S(IF risk_level(text) = "high"
                          THEN "Significant revision required before signing."
                          ELSE "Review recommended before signing.")]

\* `now` is datetime.utcnow().isoformat() + "Z" as <<date, "T", time, "Z">>.
make_dummy_analysis(text, now) ==
    LET level == risk_level(text) IN
    [summary |-> O(DummyCounts(text, level)),
     categories |-> L(<<O([name |-> S("Liability"), value |-> I(8)]),
                        O([name |-> S("Payment Terms"), value |-> I(5)]),
                        O([name |-> S("Termination"), value |-> I(3)]),
                        O([name |-> S("IP Rights"), value |-> I(6)])>>),
     topRisks |-> L(<<O([id |-> I(1),
                         level |-> S(level),
                         category |-> S("Liability"),
                         title |-> S("Potentially unlimited liability"),
                         description |-> S("Contract may expose the company to broad liability."),
                         section |-> S("Section 8.2"),
                         impact |-> S(IF level = "high" THEN "Critical financial exposure"
                                      ELSE "Moderate exposure"),
                         recommendation |-> S("Introduce liability cap aligned with contract value."),
                         tags |-> L(<<S("liability"), S("indemnity")>>)])>>),
     document |-> O([title |-> S("Uploaded Contract"),
                     sections |-> L(<<O([id |-> S("s1"),
                                         heading |-> S("Full text"),
                                         text |-> S(text),
                                         riskLevel |-> S(level),
                                         riskTags |-> L(IF level # "low" THEN <<S("liability")>> ELSE <<>>),
                                         issues |-> L(IF level # "low"
                                                      THEN <<O([id |-> S("iss1"),
                                                                type |-> S("liability"),
                                                                severity |-> S(level),
                                                                snippet |-> S(Prefix(text, 200)),
                                                                explanation |-> S("Potentially unfavorable liability language."),
                                                                suggestedFix |-> S("Cap liability and clarify exclusions.")])>>
                                                      ELSE <<>>)])>>)]),
     improvements |-> L(<<O([id |-> I(1),
                             category |-> S("Liability"),
                             level |-> S(level),
                             original |-> S("Provider shall be liable for any and all damages..."),
                             improved |-> S("Provider's total liability under this agreement shall be limited to..."),
                             rationale |-> S("Introduces standard commercial liability cap."),
                             status |-> S("suggested")])>>),
     changes |-> L(<<O([id |-> I(1),
                        type |-> S("modified"),
                        section |-> S("Section 4.1 - Liability"),
                        original |-> S("Provider shall be liable for any and all damages..."),
                        revised |-> S("Provider's total liability under this agreement shall be limited to..."),
                        impact |-> S(level),
                        description |-> S("Added liability cap to protect against unlimited exposure."),
                        status |-> S("recommended")])>>),
     report |-> O([documentInfo |-> O([name |-> S("Uploaded Contract"),
                                       date |-> Null,
                                       parties |-> L(<<>>),
                                       reviewDate |-> S(SplitFirst(now, "T")[1]),
                                       analyst |-> S("RedGuard AI")]),
                   executiveSummary |-> O(DummyCounts(text, Capitalize(level))),
                   issues |-> L(<<O([id |-> I(1),
                                     category |-> S("Liability"),
                                     severity |-> S(IF level = "high" THEN "Critical" ELSE "Medium"),
                                     title |-> S("Liability exposure"),
                                     status |-> S("Unresolved"),
                                     owner |-> S("Legal"),
                                     dueDate |-> Null])>>),
                   mitigationPlan |-> L(<<S("Introduce liability cap aligned with contract value."),
                                         S("Clarify IP ownership of background vs foreground IP.")>>),
                   signingRecommendation |-> S(IF level = "high"
                                               THEN "Do not sign until high severity issues are resolved."
                                               ELSE "Proceed after addressing medium-risk items.")])]

\* ------------------------------------------- ContractAnalysis construction

\* Lines 364-375: every model of the constructor call validates; any failure
\* raises (KeyError, TypeError or ValidationError) before line 376 runs.
Constructible(llm_result) ==
    /\ Has(llm_result, "summary") /\ SummaryValid(llm_result.summary)
    /\ Iterable(llm_result, "categories")
    /\ \A i \in 1..Len(Elements(llm_result, "categories")) :
          CategoryScoreValid(Elements(llm_result, "categories")[i])
    /\ Iterable(llm_result, "topRisks")
    /\ \A i \in 1..Len(Elements(llm_result, "topRisks")) :
          TopRiskValid(Elements(llm_result, "topRisks")[i])
    /\ DocumentValid(llm_result)
    /\ Iterable(llm_result, "improvements")
    /\ \A i \in 1..Len(Elements(llm_result, "improvements")) :
          ImprovementValid(Elements(llm_result, "improvements")[i])
    /\ Iterable(llm_result, "changes")
    /\ \A i \in 1..Len(Elements(llm_result, "changes")) :
          ChangeValid(Elements(llm_result, "changes")[i])
    /\ Has(llm_result, "report") /\ ReportValid(llm_result.report)

\* file.filename or "document"
FileNameOrDocument(upload) ==
    IF ~Has(upload, "filename") \/ upload.filename = <<>>
    THEN <<"d", "o", "c", "u", "m", "e", "n", "t">>
    ELSE upload.filename

ContractAnalysis(contract_id, upload, uploaded_at, llm_result) ==
    [contractId |-> contract_id,
     fileName |-> FileNameOrDocument(upload),
     uploadedAt |-> uploaded_at,
     summary |-> Summary(llm_result.summary),
     categories |-> [i \in 1..Len(Elements(llm_result, "categories")) |->
                        CategoryScore(Elements(llm_result, "categories")[i])],
     topRisks |-> [i \in 1..Len(Elements(llm_result, "topRisks")) |->
                      TopRisk(Elements(llm_result, "topRisks")[i])],
     document |-> Document(llm_result),
     improvements |-> [i \in 1..Len(Elements(llm_result, "improvements")) |->
                          Improvement(Elements(llm_result, "improvements")[i])],
     changes |-> [i \in 1..Len(Elements(llm_result, "changes")) |->
                     Change(Elements(llm_result, "changes")[i])],
     report |-> Report(llm_result.report)]

\* ------------------------------------------------------------ Python dicts
\* A dict is the sequence of its entries in insertion order.

Keys(d) == {d[i].key : i \in 1..Len(d)}

\* d[k] for a key of d
DictGet(d, k) == d[CHOOSE i \in 1..Len(d) : d[i].key = k].value

\* A store of bounded size: a new key evicts the oldest entry.
DictSet_evicting(d, k, v) ==
    IF k \in Keys(d)
    THEN [i \in 1..Len(d) |-> IF d[i].key = k THEN [key |-> k, value |-> v] ELSE d[i]]
    ELSE IF d = <<>> THEN <<[key |-> k, value |-> v]>>
    ELSE Append(Tail(d), [key |-> k, value |-> v])

\* d[k] = v: a new key goes to the end, an existing key keeps its place.
DictSet(d, k, v) ==
    IF k \in Keys(d)
    THEN [i \in 1..Len(d) |-> IF d[i].key = k THEN [key |-> k, value |-> v] ELSE d[i]]
    ELSE Append(d, [key |-> k, value |-> v])

\* ------------------------------------------------------------------- inputs
\* Uploads and provider payloads are named; the state holds the names and
\* Upload / LlmResult give the values.

Pad(n) == [i \in 1..n |-> "x"]

NotParsed == [ok |-> FALSE]
Parsed(parts) == [ok |-> TRUE, parts |-> parts]

\* An UploadFile: filename (absent when the client sent none), the bytes,
\* and what the external reader (pypdf, python-docx) makes of the bytes.
Upload(name) ==
    CASE name = "contract.xyz" ->
            [filename |-> <<"c", "o", "n", "t", "r", "a", "c", "t", ".", "x", "y", "z">>,
             data |-> UnlimitedLiability \o Pad(40), parsed |-> NotParsed]
      [] name = "(no filename)" ->
            [data |-> Pad(60), parsed |-> NotParsed]
      [] name = "a.txt: 49 characters" ->
            [filename |-> <<"a", ".", "t", "x", "t">>, data |-> Pad(49), parsed |-> NotParsed]
      [] name = "a.txt: 50 bytes, one not UTF-8" ->
            [filename |-> <<"a", ".", "t", "x", "t">>,
             data |-> Pad(30) \o <<InvalidByte>> \o Pad(19), parsed |-> NotParsed]
      [] name = "b.txt: 50 characters" ->
            [filename |-> <<"b", ".", "t", "x", "t">>, data |-> Pad(50), parsed |-> NotParsed]
      [] name = "C.PDF: pages of 25 and 24 characters" ->
            [filename |-> <<"C", ".", "P", "D", "F">>, data |-> <<"%", "P", "D", "F">>,
             parsed |-> Parsed(<< <<"A", "s", " ", "I", "s">> \o Pad(20), Pad(24) >>)]
      [] name = "d.pdf: pages of 24 and 24 characters" ->
            [filename |-> <<"d", ".", "p", "d", "f">>, data |-> <<"%", "P", "D", "F">>,
             parsed |-> Parsed(<< Pad(24), Pad(24) >>)]
      [] name = "e.docx: unreadable" ->
            [filename |-> <<"e", ".", "d", "o", "c", "x">>, data |-> <<"x">>, parsed |-> NotParsed]
      [] name = "doc" ->
            [filename |-> <<"d", "o", "c">>, data |-> <<"P", "K">>,
             parsed |-> Parsed(<< UnlimitedLiability \o Pad(40) >>)]

AllFiles ==
    {"contract.xyz", "(no filename)", "a.txt: 49 characters", "a.txt: 50 bytes, one not UTF-8",
     "b.txt: 50 characters", "C.PDF: pages of 25 and 24 characters",
     "d.pdf: pages of 24 and 24 characters", "e.docx: unreadable", "doc"}

SystemFiles == {"contract.xyz", "b.txt: 50 characters", "C.PDF: pages of 25 and 24 characters"}

\* o with key k set to v / without key k
With(o, k, v) == [x \in DOMAIN o \cup {k} |-> IF x = k THEN v ELSE o[x]]
Without(o, k) == [x \in DOMAIN o \ {k} |-> o[x]]

WithSummary(p, k, v) == With(p, "summary", O(With(p.summary.o, k, v)))

\* What an analysis provider may return in place of the placeholder's
\* payload p: p itself, or p off the schema in one place.
Variant(p, v) ==
    CASE v = "placeholder" -> p
      [] v = "riskScore missing" -> With(p, "summary", O(Without(p.summary.o, "riskScore")))
      [] v = "riskScore 101" -> WithSummary(p, "riskScore", I(101))
      [] v = "riskScore -1" -> WithSummary(p, "riskScore", I(0 - 1))
      [] v = "riskScore 0" -> WithSummary(p, "riskScore", I(0))
      [] v = "riskScore 100" -> WithSummary(p, "riskScore", I(100))
      [] v = "riskScore a string" -> WithSummary(p, "riskScore", S("high"))
      [] v = "overallRisk High" -> WithSummary(p, "overallRisk", S("High"))
      [] v = "criticalIssues -1" -> WithSummary(p, "criticalIssues", I(0 - 1))
      [] v = "mediumIssues -1" -> WithSummary(p, "mediumIssues", I(0 - 1))
      [] v = "lowIssues -2" -> WithSummary(p, "lowIssues", I(0 - 2))
      [] v = "summary missing" -> Without(p, "summary")
      [] v = "report missing" -> Without(p, "report")
      [] v = "report.executiveSummary missing" ->
            With(p, "report", O(Without(p.report.o, "executiveSummary")))
      [] v = "only summary, improvements, report" ->
            With(Without(Without(Without(Without(p, "categories"), "topRisks"), "document"), "changes"),
                 "improvements", L(<<O(Without(p.improvements.items[1].o, "status"))>>))
      [] v = "categories: a value that is no int" ->
            With(p, "categories",
                 L(p.categories.items \o <<O([name |-> S("Liability"), value |-> S("eight")])>>))
      [] v = "topRisks: level severe" ->
            With(p, "topRisks", L(<<O(With(p.topRisks.items[1].o, "level", S("severe")))>>))
      [] v = "improvements: status done" ->
            With(p, "improvements", L(<<O(With(p.improvements.items[1].o, "status", S("done")))>>))
      [] v = "changes: type moved" ->
            With(p, "changes",
                 L(<<p.changes.items[1], O(With(p.changes.items[1].o, "type", S("moved")))>>))
      [] v = "changes null" -> With(p, "changes", Null)
      [] v = "document a list" -> With(p, "document", L(<<>>))

AllVariants ==
    {"placeholder", "riskScore missing", "riskScore 101", "riskScore -1", "riskScore 0",
     "riskScore 100", "riskScore a string", "overallRisk High", "criticalIssues -1",
     "mediumIssues -1", "lowIssues -2", "summary missing", "report missing",
     "report.executiveSummary missing", "only summary, improvements, report",
     "categories: a value that is no int", "topRisks: level severe",
     "improvements: status done", "changes: type moved", "changes null", "document a list"}

SystemVariants == {"placeholder", "riskScore missing"}

\* datetime.utcnow().isoformat() readings, as <<date, "T", time>>.
utcnow == {<<"2025-11-08", "T", "10:00:00">>, <<"2025-11-08", "T", "10:00:00.250000">>}

\* One reading of the clock, where the time of day plays no part.
Noon == {<<"2025-11-08", "T", "12:00:00">>}

\* The outcome of `await call_llm(text)`: the placeholder ran at `now` and
\* its payload came back as the named variant, or the call raised.
Returned(variant, now) == [kind |-> "returned", variant |-> variant, now |-> now]
Raised == [kind |-> "raised"]

\* call_llm: make_dummy_analysis(text), seen through the variant.
call_llm(text, outcome) == Variant(make_dummy_analysis(text, outcome.now \o <<"Z">>), outcome.variant)

\* The payloads call_llm may return with the given variants and clock readings.
Returns(variants, clock) == {Returned(v, now) : v \in variants, now \in clock}

\* Contract ids: str(uuid4()) values, written as numbers. One more than the
\* store is driven to hold, so that an unknown id always exists.
ContractIds == 1..(MaxContracts + 1)

\* An id generator that hands out one id over and over.
uuid4_constant(store) == MaxContracts + 1

\* uuid4() never repeats a value it has produced, and its values come in no
\* order: the unused ids are handed out from the top, so that the order of
\* insertion is not the order of the ids.
uuid4(store) == CHOOSE id \in ContractIds \ Keys(store) : \A other \in ContractIds \ Keys(store) : other <= id

\* extract_text_from_file on each upload, computed once.
Extracted == [file \in AllFiles |-> extract_text_from_file(Upload(file))]

\* The uploads whose text reaches call_llm.
Analyzable == {file \in AllFiles : Extracted[file].kind = "text" /\ Len(Extracted[file].text) >= MinTextLength}

\* call_llm on each text and outcome, computed once.
LlmResults ==
    [file \in Analyzable |->
        [outcome \in Returns(AllVariants, utcnow \cup Noon) |-> call_llm(Extracted[file].text, outcome)]]

\* The create-analysis requests that may be in flight together.
Requests == {"r1", "r2"}

FeedbackRequests ==
    {[issueId |-> "iss1", type |-> "helpful", comment |-> None],
     [issueId |-> "no-such-issue", type |-> "false_positive", comment |-> "not a risk"]}

\* -------------------------------------------------------------------- state

VARIABLES
    CONTRACTS,  \* the dict contract_id -> ContractAnalysis
    FEEDBACK,   \* the dict contract_id -> list of FeedbackRequest
    pending,    \* each create-analysis request: idle, or suspended in call_llm
    resp,       \* the response sent last, with the request it answers
    inserted,   \* history: the contractIds of the 200 responses of analyze_contract, in order
    accepted    \* history: accepted submit_feedback requests per contract id

vars == <<CONTRACTS, FEEDBACK, pending, resp, inserted, accepted>>

Idle == [pc |-> "idle"]

Response(op, req, status, body) == [op |-> op, req |-> req, status |-> status, body |-> body]

NoRequest == [none |-> TRUE]

Init ==
    /\ CONTRACTS = <<>>
    /\ FEEDBACK = <<>>
    /\ pending = [r \in Requests |-> Idle]
    /\ resp = Response("none", NoRequest, 0, NoRequest)
    /\ inserted = <<>>
    /\ accepted = [id \in ContractIds |-> 0]

\* ------------------------------------------------------------------ healthz

healthz ==
    /\ resp' = Response("healthz", NoRequest, 200, [status |-> "ok"])
    /\ UNCHANGED <<CONTRACTS, FEEDBACK, pending, inserted, accepted>>

\* --------------------------------------------------------- analyze_contract

\* The request a create-analysis response answers: the upload, how many
\* times call_llm was entered for it, what call_llm came back with, and
\* whether another request was suspended in call_llm when this one resumed.
AnalyzeRequest(file, llm_calls, outcome, interleaved) ==
    [file |-> file, llm_calls |-> llm_calls, outcome |-> outcome, interleaved |-> interleaved]

NotCalled == [kind |-> "not called"]

\* Lines 351-359: extraction and the length floor, up to `await call_llm`.
analyze_contract_request(r, file) ==
    /\ pending[r].pc = "idle"
    /\ LET extracted == Extracted[file] IN
       IF extracted.kind = "http"
       THEN /\ resp' = Response("analyze_contract", AnalyzeRequest(file, 0, NotCalled, FALSE),
                                extracted.status, extracted.detail)
            /\ UNCHANGED pending
       ELSE IF Len(extracted.text) < MinTextLength
       THEN /\ resp' = Response("analyze_contract", AnalyzeRequest(file, 0, NotCalled, FALSE),
                                400, "Document too short")
            /\ UNCHANGED pending
       ELSE /\ pending' = [pending EXCEPT ![r] = [pc |-> "call_llm", file |-> file]]
            /\ UNCHANGED resp
    /\ UNCHANGED <<CONTRACTS, FEEDBACK, inserted, accepted>>

\* The assignment of line 376 moved ahead of validation: a payload that does
\* not validate leaves a record built from the placeholder's defaults.
analyze_store_before_validation(store, contract_id, upload, uploaded_at, llm_result) ==
    IF Constructible(llm_result)
    THEN DictSet(store, contract_id, ContractAnalysis(contract_id, upload, uploaded_at, llm_result))
    ELSE DictSet(store, contract_id,
                 ContractAnalysis(contract_id, upload, uploaded_at, make_dummy_analysis(<<>>, uploaded_at)))

\* Lines 364-376: CONTRACTS after the constructor call and the assignment.
analyze_store(store, contract_id, upload, uploaded_at, llm_result) ==
    IF Constructible(llm_result)
    THEN DictSet(store, contract_id, ContractAnalysis(contract_id, upload, uploaded_at, llm_result))
    ELSE store

\* Lines 359-377: from the return of call_llm to the response.
analyze_contract_resume(r, outcomes, clock) ==
    /\ pending[r].pc = "call_llm"
    /\ \E outcome \in outcomes, now \in clock :
        LET upload == Upload(pending[r].file)
            contract_id == uuid4(CONTRACTS)
            uploaded_at == now \o <<"Z">>
            req == AnalyzeRequest(pending[r].file, 1, outcome,
                                  \E other \in Requests \ {r} : pending[other].pc = "call_llm")
        IN
        IF outcome.kind = "raised"
        THEN /\ resp' = Response("analyze_contract", req, Unhandled.status, Unhandled.detail)
             /\ UNCHANGED <<CONTRACTS, inserted>>
        ELSE LET llm_result == LlmResults[pending[r].file][outcome] IN
             IF ~Constructible(llm_result)
             THEN /\ CONTRACTS' = analyze_store(CONTRACTS, contract_id, upload, uploaded_at, llm_result)
                  /\ resp' = Response("analyze_contract", req, Unhandled.status, Unhandled.detail)
                  /\ UNCHANGED inserted
             ELSE /\ Len(CONTRACTS) < MaxContracts
                  /\ CONTRACTS' = analyze_store(CONTRACTS, contract_id, upload, uploaded_at, llm_result)
                  /\ resp' = Response("analyze_contract", req, 200,
                                      ContractAnalysis(contract_id, upload, uploaded_at, llm_result))
                  /\ inserted' = Append(inserted, contract_id)
    /\ pending' = [pending EXCEPT ![r] = Idle]
    /\ UNCHANGED <<FEEDBACK, accepted>>

\* ----------------------------------------------------------- list_contracts

ContractListItem(cid, contract) ==
    [contractId |-> cid,
     fileName |-> contract.fileName,
     uploadedAt |-> contract.uploadedAt,
     overallRisk |-> contract.summary.overallRisk,
     riskScore |-> contract.summary.riskScore]

\* The list newest first.
list_items_newest_first(store) ==
    [i \in 1..Len(store) |->
        ContractListItem(store[Len(store) + 1 - i].key, store[Len(store) + 1 - i].value)]

\* Lines 382-391: one item per entry of CONTRACTS.items(), in dict order.
list_items(store) == [i \in 1..Len(store) |-> ContractListItem(store[i].key, store[i].value)]

list_contracts ==
    /\ resp' = Response("list_contracts", NoRequest, 200, [items |-> list_items(CONTRACTS)])
    /\ UNCHANGED <<CONTRACTS, FEEDBACK, pending, inserted, accepted>>

\* ------------------------------------------------------------- get_contract

get_contract(contract_id) ==
    /\ resp' = IF contract_id \in Keys(CONTRACTS)
               THEN Response("get_contract", [contract_id |-> contract_id], 200,
                             DictGet(CONTRACTS, contract_id))
               ELSE Response("get_contract", [contract_id |-> contract_id], 404, "Contract not found")
    /\ UNCHANGED <<CONTRACTS, FEEDBACK, pending, inserted, accepted>>

\* ---------------------------------------------------------- submit_feedback

RECURSIVE TotalFeedback(_)
TotalFeedback(store) ==
    IF store = <<>> THEN 0 ELSE Len(Head(store).value) + TotalFeedback(Tail(store))

\* FEEDBACK[contract_id] = [feedback]: the latest entry replaces the list.
feedback_overwrite(store, contract_id, feedback) == DictSet(store, contract_id, <<feedback>>)

\* Line 407: FEEDBACK.setdefault(contract_id, []).append(feedback)
feedback_append(store, contract_id, feedback) ==
    DictSet(store, contract_id,
            Append(IF contract_id \in Keys(store) THEN DictGet(store, contract_id) ELSE <<>>,
                   feedback))

\* submit_feedback without the check of line 405.
feedback_target_unchecked(contract_id, store) == TRUE

\* Line 405: `contract_id not in CONTRACTS` is false.
feedback_target_known(contract_id, store) == contract_id \in Keys(store)

submit_feedback(contract_id, feedback) ==
    LET req == [contract_id |-> contract_id, feedback |-> feedback] IN
    IF ~feedback_target_known(contract_id, CONTRACTS)
    THEN /\ resp' = Response("submit_feedback", req, 404, "Contract not found")
         /\ UNCHANGED <<CONTRACTS, FEEDBACK, pending, inserted, accepted>>
    ELSE /\ TotalFeedback(FEEDBACK) < MaxFeedback
         /\ FEEDBACK' = feedback_append(FEEDBACK, contract_id, feedback)
         /\ accepted' = [accepted EXCEPT ![contract_id] = @ + 1]
         /\ resp' = Response("submit_feedback", req, 200, [status |-> "ok"])
         /\ UNCHANGED <<CONTRACTS, pending, inserted>>

\* ----------------------------------------------------------- specifications

OneFeedback == {[issueId |-> "iss1", type |-> "helpful", comment |-> None]}

\* The running server: concurrent create-analysis requests, the provider
\* returning the placeholder's payload or one without summary.riskScore, or
\* failing, and every other endpoint.
Next ==
    \/ \E r \in Requests, file \in SystemFiles : analyze_contract_request(r, file)
    \/ \E r \in Requests : analyze_contract_resume(r, Returns(SystemVariants, Noon) \cup {Raised}, Noon)
    \/ list_contracts
    \/ \E contract_id \in ContractIds : get_contract(contract_id)
    \/ \E contract_id \in ContractIds, feedback \in OneFeedback : submit_feedback(contract_id, feedback)
    \/ healthz

Spec == Init /\ [][Next]_vars

\* The server as written, call_llm being the placeholder: one request at a
\* time over every upload, and the list.
NextPlaceholder ==
    \/ \E file \in AllFiles : analyze_contract_request("r1", file)
    \/ analyze_contract_resume("r1", Returns({"placeholder"}, utcnow), utcnow)
    \/ list_contracts

SpecPlaceholder == Init /\ [][NextPlaceholder]_vars

NormalizeFiles ==
    {"contract.xyz", "a.txt: 49 characters", "C.PDF: pages of 25 and 24 characters"}

\* Validation of the provider's payload: one request at a time, the
\* provider returning any payload variant or failing.
NextNormalize ==
    \/ \E file \in NormalizeFiles : analyze_contract_request("r1", file)
    \/ analyze_contract_resume("r1", Returns(AllVariants, Noon) \cup {Raised}, Noon)
    \/ list_contracts

SpecNormalize == Init /\ [][NextNormalize]_vars

\* Feedback: records of one upload, and feedback on every id.
NextFeedback ==
    \/ analyze_contract_request("r1", "b.txt: 50 characters")
    \/ analyze_contract_resume("r1", Returns({"placeholder"}, Noon), Noon)
    \/ \E contract_id \in ContractIds, feedback \in FeedbackRequests : submit_feedback(contract_id, feedback)
    \/ \E contract_id \in ContractIds : get_contract(contract_id)

SpecFeedback == Init /\ [][NextFeedback]_vars

\* ------------------------------------------------------------------ claims

IsAnalyzeResponse == resp.op = "analyze_contract"

\* The response answers a request whose call_llm returned the named variant.
AnswersVariant(variants) ==
    /\ IsAnalyzeResponse
    /\ resp.req.outcome.kind = "returned"
    /\ resp.req.outcome.variant \in variants

\* The variants that are off the schema: a required field missing, a value
\* outside its range or its literals, or an element of a list that fails.
MalformedVariants ==
    {"riskScore missing", "riskScore 101", "riskScore -1", "riskScore a string",
     "overallRisk High", "summary missing", "report missing",
     "report.executiveSummary missing", "categories: a value that is no int",
     "topRisks: level severe", "improvements: status done", "changes: type moved",
     "changes null", "document a list"}

\* C1: a create-analysis request whose payload fails normalization is
\* answered with the server fault and changes neither store: the entries of
\* CONTRACTS (and of FEEDBACK) are the same before and after the request.
C1_MalformedLeavesStoreUnchanged ==
    [][AnswersVariant(MalformedVariants)' =>
          /\ resp'.status = 500
          /\ CONTRACTS' = CONTRACTS
          /\ FEEDBACK' = FEEDBACK
          /\ Len(CONTRACTS') = Len(inserted')]_vars

\* A payload without summary.riskScore was rejected with a record in the store.
C1_Witness ==
    /\ AnswersVariant({"riskScore missing"})
    /\ resp.status = 500
    /\ Len(CONTRACTS) >= 1

\* C2: every stored record has summary.riskScore in 0..100; riskScore 101
\* and -1 are rejected and insert nothing, riskScore 0 and 100 are accepted
\* and stored.
C2_RiskScoreInRange ==
    /\ \A i \in 1..Len(CONTRACTS) : CONTRACTS[i].value.summary.riskScore \in 0..100
    /\ Len(CONTRACTS) = Len(inserted)
    /\ AnswersVariant({"riskScore 101", "riskScore -1"}) => resp.status = 500
    /\ AnswersVariant({"riskScore 0", "riskScore 100"}) =>
          /\ resp.status = 200
          /\ resp.body.summary.riskScore = (IF resp.req.outcome.variant = "riskScore 0" THEN 0 ELSE 100)
          /\ \E i \in 1..Len(CONTRACTS) : CONTRACTS[i].value = resp.body

\* riskScore 101 was rejected while a record with riskScore 100 and one with
\* riskScore 0 are stored.
C2_Witness ==
    /\ AnswersVariant({"riskScore 101"})
    /\ resp.status = 500
    /\ {CONTRACTS[i].value.summary.riskScore : i \in 1..Len(CONTRACTS)} = {0, 100}

\* C9: every stored record's criticalIssues, mediumIssues and lowIssues are
\* integers >= 0 (a payload with a negative count is rejected).
C9_CountsNonNegative ==
    \A i \in 1..Len(CONTRACTS) :
        /\ CONTRACTS[i].value.summary.criticalIssues >= 0
        /\ CONTRACTS[i].value.summary.mediumIssues >= 0
        /\ CONTRACTS[i].value.summary.lowIssues >= 0

\* The failure kind of a create-analysis response, from the request it answers.
FailureKind ==
    IF ~IsAnalyzeResponse \/ resp.status = 200 THEN "none"
    ELSE IF resp.req.outcome.kind = "raised" THEN "upstream analysis failed"
    ELSE IF resp.req.outcome.kind = "returned" THEN "malformed analysis result"
    ELSE IF resp.req.file = "contract.xyz" THEN "unsupported format"
    ELSE IF resp.req.file = "a.txt: 49 characters" THEN "document too short"
    ELSE "none"

\* What the caller sees of a response.
Visible == <<resp.status, resp.body>>

\* C7: the four failure kinds of create-analysis are signalled distinctly:
\* two responses of different failure kinds differ in what the caller sees.
C7_FailureKindsDistinct ==
    [][(FailureKind # "none" /\ FailureKind' # "none" /\ FailureKind # FailureKind')
          => Visible # Visible']_vars

\* The stored records, in dict order.
Records == [i \in 1..Len(CONTRACTS) |-> CONTRACTS[i].value]

\* The stored record with the given contractId.
RecordOf(contract_id) == Records[CHOOSE i \in 1..Len(Records) : Records[i].contractId = contract_id]

\* C3: the list operation returns one ContractListItem per stored record, in
\* the order the records were inserted, and each item's five fields equal
\* the fields of the record they are copied from.
C3_ListInInsertionOrder ==
    resp.op = "list_contracts" =>
        LET items == resp.body.items IN
        /\ resp.status = 200
        /\ Len(items) = Len(Records)
        /\ [i \in 1..Len(items) |-> items[i].contractId] = inserted
        /\ Cardinality({Records[i].contractId : i \in 1..Len(Records)}) = Len(Records)
        /\ \A i \in 1..Len(items) :
              /\ \E j \in 1..Len(Records) : Records[j].contractId = items[i].contractId
              /\ items[i].fileName = RecordOf(items[i].contractId).fileName
              /\ items[i].uploadedAt = RecordOf(items[i].contractId).uploadedAt
              /\ items[i].overallRisk = RecordOf(items[i].contractId).summary.overallRisk
              /\ items[i].riskScore = RecordOf(items[i].contractId).summary.riskScore

\* The list of two records that differ in file name, time, risk and score.
C3_Witness ==
    /\ resp.op = "list_contracts"
    /\ Len(resp.body.items) = 2
    /\ resp.body.items[1].fileName # resp.body.items[2].fileName
    /\ resp.body.items[1].uploadedAt # resp.body.items[2].uploadedAt
    /\ resp.body.items[1].overallRisk = "high"
    /\ resp.body.items[2].riskScore = 30

\* The extensions the text extraction is specified to know.
SupportedExtensions == {<<"t", "x", "t">>, <<"p", "d", "f">>, <<"d", "o", "c", "x">>, <<"d", "o", "c">>}

\* The uploads whose extension is none of them: contract.xyz and the upload
\* without a filename.
UnsupportedUploads == {file \in AllFiles : Extension(Upload(file)) \notin SupportedExtensions}

ShortUploads ==
    {"a.txt: 49 characters", "a.txt: 50 bytes, one not UTF-8", "d.pdf: pages of 24 and 24 characters"}

FiftyCharacterUploads == {"b.txt: 50 characters", "C.PDF: pages of 25 and 24 characters"}

\* C6: call_llm is entered only after both input checks pass. contract.xyz
\* is answered 400 "Unsupported file type" and a text of 49 characters 400
\* "Document too short", with call_llm not entered and the store unchanged;
\* a text of 50 characters goes on to call_llm.
C6_ChecksBeforeCollaborator ==
    [][/\ (IsAnalyzeResponse' /\ resp'.req.file \in UnsupportedUploads) =>
             /\ resp'.status = 400 /\ resp'.body = "Unsupported file type"
             /\ resp'.req.llm_calls = 0
             /\ CONTRACTS' = CONTRACTS
       /\ (IsAnalyzeResponse' /\ resp'.req.file \in ShortUploads) =>
             /\ resp'.status = 400 /\ resp'.body = "Document too short"
             /\ resp'.req.llm_calls = 0
             /\ CONTRACTS' = CONTRACTS
       /\ (IsAnalyzeResponse' /\ resp'.req.file \in FiftyCharacterUploads) =>
             /\ resp'.req.llm_calls = 1
             /\ resp'.status # 400
       /\ \A r \in Requests :
             pending'[r].pc = "call_llm" => pending'[r].file \notin UnsupportedUploads \cup ShortUploads
       /\ Len(CONTRACTS') > Len(CONTRACTS) => IsAnalyzeResponse' /\ resp'.req.llm_calls = 1]_vars

\* The 49-character text was rejected and the 50-character text is in call_llm.
C6_Witness ==
    /\ IsAnalyzeResponse
    /\ resp.req.file = "a.txt: 49 characters"
    /\ resp.status = 400
    /\ pending["r1"].pc = "call_llm"
    /\ pending["r1"].file = "b.txt: 50 characters"

IsFeedbackResponse == resp.op = "submit_feedback"

\* The feedback sequence of a contract id, empty when FEEDBACK has no entry.
FeedbackOf(store, contract_id) ==
    IF contract_id \in Keys(store) THEN DictGet(store, contract_id) ELSE <<>>

\* C4: feedback on a contractId that is not in the store is answered 404
\* and leaves FEEDBACK as it was, without an entry for that id; every key of
\* FEEDBACK is a key of CONTRACTS.
C4_FeedbackOnUnknownContract ==
    [][/\ IsFeedbackResponse' =>
             (resp'.status = 404 <=> resp'.req.contract_id \notin Keys(CONTRACTS'))
       /\ (IsFeedbackResponse' /\ resp'.status = 404) =>
             /\ FEEDBACK' = FEEDBACK
             /\ resp'.req.contract_id \notin Keys(FEEDBACK')
             /\ resp'.body = "Contract not found"
       /\ Keys(FEEDBACK') \subseteq Keys(CONTRACTS')]_vars

\* Feedback on an unknown id was refused while another contract has feedback.
C4_Witness ==
    /\ IsFeedbackResponse
    /\ resp.status = 404
    /\ CONTRACTS # <<>>
    /\ FEEDBACK # <<>>
    /\ resp.req.contract_id \notin Keys(FEEDBACK)

\* C5: a contract's feedback sequence is append-only. A step leaves every
\* sequence as it was, but for an accepted submit-feedback request, which
\* appends its entry to the end of its contract's sequence and to no other;
\* after n accepted requests for an id its sequence has n entries.
C5_FeedbackAppendOnly ==
    [][/\ \A id \in ContractIds :
             \/ FeedbackOf(FEEDBACK', id) = FeedbackOf(FEEDBACK, id)
             \/ /\ IsFeedbackResponse' /\ resp'.status = 200 /\ resp'.req.contract_id = id
                /\ FeedbackOf(FEEDBACK', id) = Append(FeedbackOf(FEEDBACK, id), resp'.req.feedback)
       /\ Keys(FEEDBACK) \subseteq Keys(FEEDBACK')
       /\ accepted' # accepted =>
             /\ IsFeedbackResponse' /\ resp'.status = 200
             /\ FeedbackOf(FEEDBACK', resp'.req.contract_id) # FeedbackOf(FEEDBACK, resp'.req.contract_id)
       /\ \A id \in ContractIds : Len(FeedbackOf(FEEDBACK', id)) = accepted'[id]]_vars

\* The same entry was accepted twice for one contract and is held twice.
C5_Witness ==
    /\ IsFeedbackResponse
    /\ resp.status = 200
    /\ FeedbackOf(FEEDBACK, resp.req.contract_id) = <<resp.req.feedback, resp.req.feedback>>
    /\ Len(CONTRACTS) = 2

\* A stored record is complete: the fields of ContractAnalysis, a valid summary.
IsComplete(record) ==
    /\ DOMAIN record = {"contractId", "fileName", "uploadedAt", "summary", "categories",
                        "topRisks", "document", "improvements", "changes", "report"}
    /\ record.summary.overallRisk \in RiskLevel
    /\ record.summary.riskScore \in 0..100

\* C8: a stored record stays: no step removes it, moves it or changes it, a
\* later create-analysis takes a contractId that is not in use, and
\* get-by-id answers a stored id with the record stored under it.
C8_RecordsImmutable ==
    [][/\ Len(CONTRACTS') >= Len(CONTRACTS)
       /\ \A i \in 1..Len(CONTRACTS) : CONTRACTS'[i] = CONTRACTS[i]
       /\ \A i \in (Len(CONTRACTS) + 1)..Len(CONTRACTS') : CONTRACTS'[i].key \notin Keys(CONTRACTS)
       /\ \A i \in 1..Len(CONTRACTS') :
             /\ CONTRACTS'[i].value.contractId = CONTRACTS'[i].key
             /\ CONTRACTS'[i].key \in {inserted'[j] : j \in 1..Len(inserted')}
       /\ Len(CONTRACTS') = Len(inserted')
       /\ resp'.op = "get_contract" =>
             IF \E j \in 1..Len(inserted') : inserted'[j] = resp'.req.contract_id
             THEN /\ resp'.status = 200
                  /\ resp'.body.contractId = resp'.req.contract_id
                  /\ \E i \in 1..Len(CONTRACTS') : CONTRACTS'[i].value = resp'.body
             ELSE resp'.status = 404]_vars

\* The first record is read back after a second record and feedback came in.
C8_Witness ==
    /\ resp.op = "get_contract"
    /\ resp.status = 200
    /\ Len(inserted) = 2
    /\ resp.req.contract_id = inserted[1]
    /\ FEEDBACK # <<>>

\* C10: create-analysis requests that interleave at call_llm do not
\* conflict. Each successful request adds one entry under a key of its own
\* and leaves the others in place, the record it answers with is the one the
\* store holds under its contractId, and a list taken at any point shows
\* complete records only, in insertion order.
C10_ConcurrentInsertsDoNotConflict ==
    [][/\ \/ CONTRACTS' = CONTRACTS
          \/ /\ Len(CONTRACTS') = Len(CONTRACTS) + 1
             /\ SubSeq(CONTRACTS', 1, Len(CONTRACTS)) = CONTRACTS
             /\ CONTRACTS'[Len(CONTRACTS')].key \notin Keys(CONTRACTS)
             /\ IsAnalyzeResponse' /\ resp'.status = 200
             /\ CONTRACTS'[Len(CONTRACTS')].value = resp'.body
       /\ (IsAnalyzeResponse' /\ resp'.status = 200) =>
             /\ resp'.body.contractId \in Keys(CONTRACTS')
             /\ DictGet(CONTRACTS', resp'.body.contractId) = resp'.body
       /\ Cardinality(Keys(CONTRACTS')) = Len(CONTRACTS')
       /\ \A i \in 1..Len(CONTRACTS') : IsComplete(CONTRACTS'[i].value)
       /\ resp'.op = "list_contracts" =>
             /\ [i \in 1..Len(resp'.body.items) |-> resp'.body.items[i].contractId] = inserted'
             /\ \A i \in 1..Len(resp'.body.items) :
                   /\ resp'.body.items[i].overallRisk \in RiskLevel
                   /\ resp'.body.items[i].riskScore \in 0..100
                   /\ resp'.body.items[i].contractId = CONTRACTS'[i].value.contractId
                   /\ resp'.body.items[i].fileName = CONTRACTS'[i].value.fileName]_vars

\* A second record was stored by a request that resumed while another
\* request was still suspended in call_llm.
C10_Witness ==
    /\ IsAnalyzeResponse
    /\ resp.status = 200
    /\ resp.req.interleaved
    /\ Len(CONTRACTS) = 2
    /\ \E r \in Requests : pending[r].pc = "call_llm"

====
